---- MODULE Spec2Model ----
(***************************************************************************)
(* API-key store, rate-limit helpers, key routes (create, update, delete,  *)
(* list, validate), key form and summarizer endpoint of shadi-app, as a    *)
(* state machine.                                                          *)
(*                                                                         *)
(* The relational store (table api_keys, table users) is state.  In the    *)
(* rate-limit helpers and the summarizer every awaited statement is one    *)
(* atomic step, and the synchronous code between two awaits belongs to the *)
(* step that precedes it.  A key-route handler makes one statement on      *)
(* api_keys and is one step.                                               *)
(***************************************************************************)
EXTENDS Integers, Sequences, FiniteSets, TLC

VARIABLES
    api_keys,   \* table api_keys
    users,      \* table users: a function from the ids of its rows to rows
    nextId,     \* the next id gen_random_uuid() hands out
    caller,     \* the validation calls of the rate-limit gate
    req,        \* the requests to the summarizer endpoint
    overlap,    \* whether two summarizer requests were ever in flight together
    last,       \* the last request to a key route and its response
    crudLeft,   \* how many key-route requests may still be made
    probe,      \* the last read-only request and what it returned
    ui,         \* the last submit of the key form of ApiKeysCrud
    signin      \* the runs of the sign-in callback

vars == <<api_keys, users, nextId, caller, req, overlap, last, crudLeft, probe, ui,
         signin>>

dbVars == <<api_keys, users, nextId>>
gateVars == <<caller>>
sumVars == <<req, overlap>>
crudVars == <<last, crudLeft>>
readVars == <<probe>>
uiVars == <<ui>>
authVars == <<signin>>

(***************************************************************************)
(* Bounds                                                                  *)
(***************************************************************************)
NumCallers == 3
NumReqs == 2
NumSignIns == 2
MaxLimit == 2
MaxCrud == 2

Callers == 1..NumCallers
Reqs == 1..NumReqs
SignIns == 1..NumSignIns

(***************************************************************************)
(* Values                                                                  *)
(***************************************************************************)
\* SQL NULL / JS null in an integer column (usage, limit)
NullInt == -1
\* SQL NULL / JS null where a string is expected (user_id, session result)
NullId == "null"
\* JS null where a header-derived string is expected; strings are sequences
\* of tokens, and no header ever holds this token
NullStr == <<"null">>

Users == {"u1", "u2"}
Types == {"dev", "prod"}
\* the names requests carry; the rows of Init are named "n1"
BodyNames == {"n2"}
\* credential strings; "dev-z" is never stored by Init
Creds == {"dev-a", "prod-a", "dev-z"}

Min(a, b) == IF a <= b THEN a ELSE b

(***************************************************************************)
(* Table api_keys: a function from the ids of the existing rows to rows    *)
(***************************************************************************)
Row(user_id, name, type, key, usage, limit) ==
    [user_id |-> user_id, name |-> name, type |-> type, key |-> key,
     usage |-> usage, limit |-> limit]

\* .eq('key', k)
RowsByKey(store, k) == {id \in DOMAIN store : store[id].key = k}

\* .eq('id', id)
RowsById(store, id) == {i \in DOMAIN store : i = id}

\* .eq('id', id).eq('user_id', userId)
RowsByIdAndOwner(store, id, userId) ==
    {i \in DOMAIN store : i = id /\ store[i].user_id = userId}

RemoveRows(store, ids) == [i \in DOMAIN store \ ids |-> store[i]]


(***************************************************************************)
(* lib/api-utils.ts: checkRateLimit and incrementApiKeyUsage               *)
(***************************************************************************)
\* usage, as the column holds it
UsageOrZero_Raw(u) == u

\* usage || 0
UsageOrZero(u) == IF u = NullInt THEN 0 ELSE u

\* checkRateLimit: one select ... .eq('key', apiKey).single(); dbErr is a
\* store failure other than PGRST116 (no row)
checkRateLimit(store, apiKey, dbErr) ==
    IF dbErr
    THEN [kind |-> "error", error |-> "Database error", status |-> 500,
          isRateLimited |-> FALSE, usage |-> 0, limit |-> NullInt, keyId |-> 0]
    ELSE IF RowsByKey(store, apiKey) = {}
    THEN [kind |-> "error", error |-> "Invalid API key", status |-> 401,
          isRateLimited |-> FALSE, usage |-> 0, limit |-> NullInt, keyId |-> 0]
    ELSE LET id == CHOOSE i \in RowsByKey(store, apiKey) : TRUE
             usage == UsageOrZero(store[id].usage)
             limit == store[id].limit
         IN  IF limit = NullInt
             THEN [kind |-> "ok", error |-> "", status |-> 200,
                   isRateLimited |-> FALSE, usage |-> usage,
                   limit |-> NullInt, keyId |-> id]
             ELSE [kind |-> "ok", error |-> "", status |-> 200,
                   isRateLimited |-> (usage >= limit), usage |-> usage,
                   limit |-> limit, keyId |-> id]

\* a missing row is read as a key that was never used
IncrementFetch_Upsert(store, keyId, dbErr) ==
    IF dbErr
    THEN [kind |-> "error", error |-> "Failed to fetch API key usage",
          status |-> 500, newUsage |-> 0]
    ELSE [kind |-> "ok", error |-> "", status |-> 200, newUsage |-> 1]

\* incrementApiKeyUsage, first statement: select usage ... .eq('id', keyId)
\* .single(); a missing row is the fetchError PGRST116
IncrementFetch(store, keyId, dbErr) ==
    IF dbErr \/ RowsById(store, keyId) = {}
    THEN [kind |-> "error", error |-> "Failed to fetch API key usage",
          status |-> 500, newUsage |-> 0]
    ELSE [kind |-> "ok", error |-> "", status |-> 200,
          newUsage |-> UsageOrZero(store[keyId].usage) + 1]

\* the write made as an upsert: a row that is gone is written again
IncrementUpdateStore_Upsert(store, keyId, newUsage, dbErr) ==
    IF dbErr
    THEN store
    ELSE IF RowsById(store, keyId) = {}
    THEN store @@ (keyId :> Row(NullId, "", "dev", "", newUsage, NullInt))
    ELSE [store EXCEPT ![keyId].usage = newUsage]

\* incrementApiKeyUsage, second statement: update({usage: newUsage})
\* .eq('id', keyId).select('id, usage'): the store after it
IncrementUpdateStore(store, keyId, newUsage, dbErr) ==
    IF dbErr
    THEN store
    ELSE [i \in DOMAIN store |->
            IF i \in RowsById(store, keyId)
            THEN [store[i] EXCEPT !.usage = newUsage]
            ELSE store[i]]

\* ... and what incrementApiKeyUsage returns after it
IncrementUpdateResult(store, keyId, dbErr) ==
    IF dbErr
    THEN [kind |-> "error", error |-> "Failed to increment API key usage",
          status |-> 500]
    ELSE IF RowsById(store, keyId) # {}
    THEN [kind |-> "ok", error |-> "", status |-> 200]
    ELSE [kind |-> "error",
          error |-> "Update succeeded but verification failed",
          status |-> 500]

(***************************************************************************)
(* A validation call of the rate-limit gate: checkRateLimit, then, when    *)
(* the key is known and under its limit, incrementApiKeyUsage.             *)
(***************************************************************************)
\* missed: the update of incrementApiKeyUsage ran and matched no row
IdleCaller ==
    [pc |-> "idle", apiKey |-> "", keyId |-> 0, newUsage |-> 0,
     result |-> "none", missed |-> FALSE]

GateStart(p) ==
    /\ caller[p].pc = "idle"
    /\ \E k \in Creds :
         caller' = [caller EXCEPT ![p] = [@ EXCEPT !.pc = "check", !.apiKey = k]]
    /\ UNCHANGED <<readVars, authVars, uiVars, dbVars, sumVars, crudVars>>

GateCheck(p) ==
    /\ caller[p].pc = "check"
    /\ \E dbErr \in BOOLEAN :
         LET r == checkRateLimit(api_keys, caller[p].apiKey, dbErr)
         IN  caller' = [caller EXCEPT ![p] =
                IF r.kind = "error"
                THEN [@ EXCEPT !.pc = "done",
                               !.result = IF r.status = 401 THEN "invalid"
                                          ELSE "error"]
                ELSE IF r.isRateLimited
                THEN [@ EXCEPT !.pc = "done", !.result = "rateLimited"]
                ELSE [@ EXCEPT !.pc = "fetch", !.keyId = r.keyId]]
    /\ UNCHANGED <<readVars, authVars, uiVars, dbVars, sumVars, crudVars>>

GateIncrementFetch(p) ==
    /\ caller[p].pc = "fetch"
    /\ \E dbErr \in BOOLEAN :
         LET r == IncrementFetch(api_keys, caller[p].keyId, dbErr)
         IN  caller' = [caller EXCEPT ![p] =
                IF r.kind = "error"
                THEN [@ EXCEPT !.pc = "done", !.result = "error"]
                ELSE [@ EXCEPT !.pc = "update", !.newUsage = r.newUsage]]
    /\ UNCHANGED <<readVars, authVars, uiVars, dbVars, sumVars, crudVars>>

GateIncrementUpdate(p) ==
    /\ caller[p].pc = "update"
    /\ \E dbErr \in BOOLEAN :
         LET r == IncrementUpdateResult(api_keys, caller[p].keyId, dbErr)
         IN  /\ api_keys' = IncrementUpdateStore(api_keys, caller[p].keyId,
                                                 caller[p].newUsage, dbErr)
             /\ caller' = [caller EXCEPT ![p] =
                  [@ EXCEPT !.pc = "done",
                            !.missed = (~dbErr /\
                                RowsById(api_keys, caller[p].keyId) = {}),
                            !.result = IF r.kind = "ok" THEN "authorized"
                                       ELSE "error"]]
    /\ UNCHANGED <<readVars, authVars, uiVars, users, nextId, sumVars, crudVars>>

\* a call incrementApiKeyUsage(supabase, keyId) with the id of a key that
\* exists or existed, or an id no key has had
IncrementStart(p) ==
    /\ caller[p].pc = "idle"
    /\ \E keyId \in 1..nextId :
         caller' = [caller EXCEPT ![p] = [@ EXCEPT !.pc = "fetch",
                                                  !.keyId = keyId]]
    /\ UNCHANGED <<readVars, authVars, uiVars, dbVars, sumVars, crudVars>>

\* incrementApiKeyUsage, from the call to its result
Increment(p) ==
    \/ IncrementStart(p)
    \/ GateIncrementFetch(p)
    \/ GateIncrementUpdate(p)

(***************************************************************************)
(* app/api/github-summarizer/route.ts                                      *)
(*                                                                         *)
(* A header value is a sequence of tokens: the 7-character prefix          *)
(* "Bearer " is one token, a whitespace character is one token, and a      *)
(* credential is one token.  headers.get() of an absent header is NullStr. *)
(***************************************************************************)
BearerSp == "Bearer "
Sp == " "

\* what headers.get() can return: absent, empty, or a value without leading
\* or trailing whitespace
AuthHeaderValues ==
    {NullStr, <<>>} \cup {<<c>> : c \in Creds}
        \cup {<<BearerSp, c>> : c \in Creds}
        \cup {<<BearerSp, Sp, c>> : c \in Creds}

ApiKeyHeaderValues == {NullStr, <<>>} \cup {<<c>> : c \in Creds}

\* JS truthiness of a string-or-null
Truthy(s) == s # NullStr /\ s # <<>>

RECURSIVE TrimStart(_)
TrimStart(s) ==
    IF s # <<>> /\ Head(s) = Sp THEN TrimStart(Tail(s)) ELSE s

RECURSIVE TrimEnd(_)
TrimEnd(s) ==
    IF s # <<>> /\ s[Len(s)] = Sp THEN TrimEnd(SubSeq(s, 1, Len(s) - 1)) ELSE s

\* the value as it is
Trim_None(s) == s

\* String.prototype.trim
Trim(s) == TrimEnd(TrimStart(s))

\* authHeader.startsWith('Bearer ')
StartsWithBearer(s) == s # <<>> /\ Head(s) = BearerSp

getApiKeyFromHeaders(authHeader, apiKeyHeader) ==
    IF Truthy(authHeader)
    THEN IF StartsWithBearer(authHeader)
         THEN Trim(Tail(authHeader))
         ELSE Trim(authHeader)
    ELSE IF Truthy(apiKeyHeader)
    THEN Trim(apiKeyHeader)
    ELSE NullStr

\* the string a token sequence spells, as the store compares it with the
\* key column: a single credential token spells that credential
Spell(s) == IF Len(s) = 1 THEN s[1] ELSE "other"

\* the missing-key check left out: every request goes on to the lookup
KeyMissing_Dropped(key) == FALSE

\* validateRequestApiKey: if (!key)
KeyMissing(key) == ~Truthy(key)

NoKeyData == [id |-> 0, usage |-> 0, limit |-> NullInt]

Response(status, error, valid) ==
    [status |-> status, error |-> error, valid |-> valid]

NoResponse == Response(0, "", "absent")

ApiKeyRequired == Response(401, "API key is required", "false")

\* handleApiKeyError: PGRST116 (no row), an RLS error, any other error
handleApiKeyError(code) ==
    IF code = "PGRST116"
    THEN Response(200, "Invalid API key", "false")
    ELSE IF code = "42501"
    THEN Response(403, "Permission denied by Row Level Security (RLS).", "false")
    ELSE Response(500, "Database error", "false")

\* validateApiKey: select ... .eq('key', key).single(); fault is "none" or
\* the code of a store error
validateApiKey(store, key, fault) ==
    IF fault # "none"
    THEN [data |-> NoKeyData, error |-> handleApiKeyError(fault)]
    ELSE IF RowsByKey(store, Spell(key)) = {}
    THEN [data |-> NoKeyData, error |-> handleApiKeyError("PGRST116")]
    ELSE LET id == CHOOSE i \in RowsByKey(store, Spell(key)) : TRUE
         IN  [data |-> [id |-> id, usage |-> store[id].usage,
                        limit |-> store[id].limit],
              error |-> NoResponse]

IdleReq ==
    [pc |-> "idle", key |-> NullStr, keyData |-> NoKeyData,
     response |-> NoResponse, queried |-> FALSE, fault |-> "none",
     work |-> FALSE]

InFlight(r) == req[r].pc \notin {"idle", "done"}

\* POST up to the first await: getApiKeyFromHeaders and the missing-key
\* rejection of validateRequestApiKey
summarizer_POST(r) ==
    /\ req[r].pc = "idle"
    /\ \E a \in AuthHeaderValues, x \in ApiKeyHeaderValues :
         LET key == getApiKeyFromHeaders(a, x)
         IN  req' = [req EXCEPT ![r] =
                IF KeyMissing(key)
                THEN [@ EXCEPT !.pc = "done", !.key = key,
                               !.response = ApiKeyRequired]
                ELSE [@ EXCEPT !.pc = "validate", !.key = key]]
    /\ overlap' = (overlap \/ \E o \in Reqs \ {r} : InFlight(o))
    /\ UNCHANGED <<readVars, authVars, uiVars, dbVars, gateVars, crudVars>>

\* validateRequestApiKey, the awaited validateApiKey and its outcome
summarizer_validateRequestApiKey(r) ==
    /\ req[r].pc = "validate"
    /\ \E fault \in {"none", "42501", "XX000"} :
         LET v == validateApiKey(api_keys, req[r].key, fault)
         IN  req' = [req EXCEPT ![r] =
                IF v.error # NoResponse
                THEN [@ EXCEPT !.pc = "done", !.queried = TRUE,
                               !.fault = fault, !.response = v.error]
                ELSE [@ EXCEPT !.pc = "parse", !.queried = TRUE,
                               !.fault = fault, !.keyData = v.data]]
    /\ UNCHANGED <<readVars, authVars, uiVars, dbVars, gateVars, overlap, crudVars>>

\* parseRequestBody
summarizer_parseRequestBody(r) ==
    /\ req[r].pc = "parse"
    /\ \E bodyOk \in BOOLEAN :
         req' = [req EXCEPT ![r] =
            IF bodyOk
            THEN [@ EXCEPT !.pc = "url", !.work = TRUE]
            ELSE [@ EXCEPT !.pc = "done", !.work = TRUE,
                           !.response = Response(400,
                               "Missing or invalid githubUrl parameter",
                               "false")]]
    /\ UNCHANGED <<readVars, authVars, uiVars, dbVars, gateVars, overlap, crudVars>>

\* processGithubUrl
summarizer_processGithubUrl(r) ==
    /\ req[r].pc = "url"
    /\ \E urlOk \in BOOLEAN :
         req' = [req EXCEPT ![r] =
            IF urlOk
            THEN [@ EXCEPT !.pc = "fetch"]
            ELSE [@ EXCEPT !.pc = "done",
                           !.response = Response(400,
                               "Could not construct raw URL", "false")]]
    /\ UNCHANGED <<readVars, authVars, uiVars, dbVars, gateVars, overlap, crudVars>>

\* fetchAndSummarize and buildSuccessResponse
summarizer_fetchAndSummarize(r) ==
    /\ req[r].pc = "fetch"
    /\ \E contentOk \in BOOLEAN, summaryOk \in BOOLEAN :
         req' = [req EXCEPT ![r] =
            IF ~contentOk
            THEN [@ EXCEPT !.pc = "done",
                           !.response = Response(502,
                               "Failed to fetch content from GitHub",
                               "false")]
            ELSE [@ EXCEPT !.pc = "done",
                           !.response = Response(IF summaryOk THEN 200
                                                 ELSE 502, "", "absent")]]
    /\ UNCHANGED <<readVars, authVars, uiVars, dbVars, gateVars, overlap, crudVars>>

(***************************************************************************)
(* lib/api-utils.ts: getAuthenticatedUserId                                *)
(***************************************************************************)
Emails == {"e1", "e2", "e3"}

\* token.sub of a decoded token: the id the provider gave the account; here
\* it reads like the id of a user row, and not the row of e1
TokenSub == "u2"

Session(cookie, token, email) ==
    [cookie |-> cookie, token |-> token, email |-> email,
     sub |-> IF token = "good" THEN TokenSub ELSE NullId]

\* what a request can carry: no cookie header, a cookie whose value
\* decodeURIComponent rejects, cookies but none of next-auth, a next-auth
\* cookie that is not the session token, a session token for which decode
\* returns null or throws, and one that decodes to claims with or without
\* an email
Sessions ==
    {Session("none", "absent", NullId), Session("other", "absent", NullId),
     Session("malformed", "absent", NullId),
     Session("next-auth", "absent", NullId), Session("next-auth", "bad", NullId),
     Session("next-auth", "throws", NullId)}
        \cup {Session("next-auth", "good", e) : e \in Emails \cup {NullId}}

\* table users: .eq('email', email)
UsersByEmail(usersTable, email) ==
    {u \in DOMAIN usersTable : usersTable[u].email = email}

\* the subject of the token is returned
UserIdOf_Subject(sess, usersTable) == sess.sub

\* return user.id: the id of the row the lookup found
UserIdOf(sess, usersTable) ==
    CHOOSE u \in UsersByEmail(usersTable, sess.email) : TRUE

Returned(value) == [threw |-> FALSE, value |-> value]
Thrown == [threw |-> TRUE, value |-> NullId]

\* what can go wrong around a request: nothing, the select on users fails
\* (the store is unreachable), or NEXTAUTH_SECRET is not set
AuthFaults == {"none", "lookup", "secret"}

\* the statements of getAuthenticatedUserId inside its try blocks
authBody(sess, usersTable, authFault) ==
    IF sess.cookie = "none" THEN Returned(NullId)
    ELSE IF sess.cookie = "malformed" THEN Thrown
    ELSE IF sess.cookie # "next-auth" THEN Returned(NullId)
    ELSE IF authFault = "secret" THEN Returned(NullId)
    ELSE IF sess.token = "absent" THEN Returned(NullId)
    ELSE IF sess.token = "throws" THEN Thrown
    ELSE IF sess.token # "good" THEN Returned(NullId)
    ELSE IF sess.email = NullId THEN Returned(NullId)
    ELSE IF authFault = "lookup" THEN Returned(NullId)
    ELSE IF Cardinality(UsersByEmail(usersTable, sess.email)) # 1
    THEN Returned(NullId)
    ELSE Returned(UserIdOf(sess, usersTable))

\* the exception is let through
Caught_Rethrown(outcome) == outcome

\* catch (error) { ... return null; }
Caught(outcome) == IF outcome.threw THEN Returned(NullId) ELSE outcome

\* getAuthenticatedUserId as its caller sees it: a value or an exception
authResult(sess, usersTable, authFault) ==
    Caught(authBody(sess, usersTable, authFault))

getAuthenticatedUserId(sess, usersTable) ==
    authResult(sess, usersTable, "none").value

(***************************************************************************)
(* app/api/auth/[...nextauth]/route.ts: the signIn callback                *)
(***************************************************************************)
UserRow(email, name) == [email |-> email, name |-> name]

\* the accounts that sign in: one whose email has a row in Init, one whose
\* email has none
SignInEmails == {"e1", "e3"}

\* user.name of the profile: absent, or a name
ProfileNames == {NullId, "ann"}

\* randomUUID() in run p
NewUserId(p) == "n" \o ToString(p)

\* the email column without its UNIQUE constraint
UserUniqueViolation_None(usersTable, email) == FALSE

\* email TEXT NOT NULL UNIQUE: a row with this email exists
UserUniqueViolation(usersTable, email) == UsersByEmail(usersTable, email) # {}

\* matched: the select found a row; wrote: the statement that followed it;
\* collided: the insert met the UNIQUE constraint; failed: a statement met
\* a store failure
IdleSignIn ==
    [pc |-> "idle", provider |-> "", email |-> "", name |-> NullId,
     matched |-> FALSE, wrote |-> "none", collided |-> FALSE,
     failed |-> FALSE]

\* signIn is called; an account of another provider is let through at once
SignInStart(p) ==
    /\ signin[p].pc = "idle"
    /\ \E provider \in {"google", "other"}, email \in SignInEmails,
          name \in ProfileNames :
         signin' = [signin EXCEPT ![p] =
            [@ EXCEPT !.pc = IF provider = "google" THEN "check" ELSE "done",
                      !.provider = provider, !.email = email, !.name = name]]
    /\ UNCHANGED <<readVars, uiVars, dbVars, gateVars, sumVars, crudVars>>

\* select('id').eq('email', user.email).maybeSingle(): existingUser is null
\* when no row matches and when the select fails
SignInCheck(p) ==
    /\ signin[p].pc = "check"
    /\ \E dbErr \in BOOLEAN :
         LET existingUser ==
                 IF dbErr \/ Cardinality(UsersByEmail(users, signin[p].email)) # 1
                 THEN NullId
                 ELSE CHOOSE u \in UsersByEmail(users, signin[p].email) : TRUE
         IN  signin' = [signin EXCEPT ![p] =
                [@ EXCEPT !.pc = IF existingUser = NullId THEN "insert"
                                 ELSE "update",
                          !.matched = (existingUser # NullId),
                          !.failed = dbErr]]
    /\ UNCHANGED <<readVars, uiVars, dbVars, gateVars, sumVars, crudVars>>

\* insert(userData); an insertError is logged and the sign-in goes on
SignInInsert(p) ==
    /\ signin[p].pc = "insert"
    /\ \E dbErr \in BOOLEAN :
         LET violation == ~dbErr /\ UserUniqueViolation(users, signin[p].email)
         IN  /\ users' = IF dbErr \/ violation THEN users
                         ELSE users @@ (NewUserId(p) :>
                                  UserRow(signin[p].email, signin[p].name))
             /\ signin' = [signin EXCEPT ![p] =
                  [@ EXCEPT !.pc = "done", !.wrote = "insert",
                            !.collided = violation,
                            !.failed = (@ \/ dbErr)]]
    /\ UNCHANGED <<readVars, uiVars, api_keys, nextId, gateVars, sumVars,
                   crudVars>>

\* update({updated_at, name?, image?}).eq('email', user.email)
SignInUpdate(p) ==
    /\ signin[p].pc = "update"
    /\ \E dbErr \in BOOLEAN :
         /\ users' = IF dbErr \/ signin[p].name = NullId THEN users
                     ELSE [u \in DOMAIN users |->
                             IF u \in UsersByEmail(users, signin[p].email)
                             THEN [users[u] EXCEPT !.name = signin[p].name]
                             ELSE users[u]]
         /\ signin' = [signin EXCEPT ![p] =
              [@ EXCEPT !.pc = "done", !.wrote = "update",
                        !.failed = (@ \/ dbErr)]]
    /\ UNCHANGED <<readVars, uiVars, api_keys, nextId, gateVars, sumVars,
                   crudVars>>

(***************************************************************************)
(* Key routes.  A handler is an operator from the store and the request    *)
(* to the response and the store after it; dbErr is a store failure.       *)
(***************************************************************************)
NoRow == Row(NullId, "", "", "", NullInt, NullInt)

KeyResponse(status, error, data) ==
    [status |-> status, error |-> error, data |-> data]

Body(name, type, key, limit) ==
    [name |-> name, type |-> type, key |-> key, limit |-> limit]

\* request bodies: the well-formed ones, and one for each way of being
\* malformed; the limit is absent (NullInt), 0 or positive
Bodies ==
    {Body(n, t, k, l) : n \in BodyNames, t \in Types, k \in Creds,
                        l \in {NullInt, 0, MaxLimit}}
        \cup {Body("", "dev", "dev-z", NullInt),
              Body("n1", "", "dev-z", NullInt),
              Body("n1", "dev", "", NullInt),
              Body("n1", "staging", "dev-z", NullInt)}

\* the ids a URL can name: those of rows that exist, existed or never did
IdParams == 1..(2 + MaxCrud)

\* no field is taken to be missing
MissingFields_None(body) == FALSE

\* !name || !type || !key
MissingFields(body) == body.name = "" \/ body.type = "" \/ body.key = ""

\* type !== 'dev' && type !== 'prod'
BadType(body) == body.type # "dev" /\ body.type # "prod"

\* the key column without its UNIQUE constraint
UniqueViolation_None(store, ids, k) == FALSE

\* key TEXT NOT NULL UNIQUE: writing key k to the rows ids would leave two
\* rows with the same key
UniqueViolation(store, ids, k) ==
    ids # {} /\ (Cardinality(ids) > 1 \/ RowsByKey(store, k) \ ids # {})

\* the update starts the count of the new credential at 0
UpdateRows_Reset(store, ids, body) ==
    [i \in DOMAIN store |->
        IF i \in ids
        THEN [store[i] EXCEPT !.name = body.name, !.type = body.type,
                              !.key = body.key, !.usage = 0]
        ELSE store[i]]

\* update({name, type, key, updated_at}) on the rows ids
UpdateRows(store, ids, body) ==
    [i \in DOMAIN store |->
        IF i \in ids
        THEN [store[i] EXCEPT !.name = body.name, !.type = body.type,
                              !.key = body.key]
        ELSE store[i]]

\* the limit as the body gives it
LimitOrNull_Kept(l) == l

\* limit || null
LimitOrNull(l) == IF l = NullInt \/ l = 0 THEN NullInt ELSE l

\* app/api/keys/route.ts POST
keys_POST(store, id, body, dbErr) ==
    IF MissingFields(body)
    THEN [response |-> KeyResponse(400, "Missing required fields: name, type, key", NoRow),
          store |-> store]
    ELSE IF BadType(body)
    THEN [response |-> KeyResponse(400, "Type must be either dev or prod", NoRow),
          store |-> store]
    ELSE IF dbErr
    THEN [response |-> KeyResponse(500, "Database error", NoRow), store |-> store]
    ELSE IF UniqueViolation(store, {id}, body.key)
    THEN [response |-> KeyResponse(409, "An API key with this value already exists", NoRow),
          store |-> store]
    ELSE LET row == Row(NullId, body.name, body.type, body.key, 0,
                        LimitOrNull(body.limit))
         IN  [response |-> KeyResponse(201, "", row),
              store |-> [i \in DOMAIN store \cup {id} |->
                            IF i = id THEN row ELSE store[i]]]

\* app/api/keys/[id]/route.ts PUT: update ... .eq('id', id).select().single()
keys_id_PUT(store, id, body, dbErr) ==
    IF MissingFields(body)
    THEN [response |-> KeyResponse(400, "Missing required fields: name, type, key", NoRow),
          store |-> store]
    ELSE IF BadType(body)
    THEN [response |-> KeyResponse(400, "Type must be either dev or prod", NoRow),
          store |-> store]
    ELSE IF dbErr
    THEN [response |-> KeyResponse(500, "Database error", NoRow), store |-> store]
    ELSE IF UniqueViolation(store, RowsById(store, id), body.key)
    THEN [response |-> KeyResponse(500, "Database error: 23505", NoRow),
          store |-> store]
    ELSE IF RowsById(store, id) = {}
    THEN [response |-> KeyResponse(500, "Database error: PGRST116", NoRow),
          store |-> store]
    ELSE LET after == UpdateRows(store, RowsById(store, id), body)
         IN  [response |-> KeyResponse(200, "", after[id]), store |-> after]

\* app/api/keys/[id]/route.ts DELETE: delete().eq('id', id)
keys_id_DELETE(store, id, dbErr) ==
    IF dbErr
    THEN [response |-> KeyResponse(500, "Database error", NoRow), store |-> store]
    ELSE [response |-> KeyResponse(200, "", NoRow),
          store |-> RemoveRows(store, RowsById(store, id))]

\* PUT with the user_id filter: update ... .eq('id', id)
\* .eq('user_id', userId).select()
owner_PUT(store, userId, id, body, dbErr) ==
    IF userId = NullId
    THEN [response |-> KeyResponse(401, "Unauthorized. Please sign in to update API keys.", NoRow),
          store |-> store]
    ELSE IF MissingFields(body)
    THEN [response |-> KeyResponse(400, "Missing required fields: name, type, key", NoRow),
          store |-> store]
    ELSE IF BadType(body)
    THEN [response |-> KeyResponse(400, "Type must be either dev or prod", NoRow),
          store |-> store]
    ELSE IF dbErr
    THEN [response |-> KeyResponse(500, "Database error", NoRow), store |-> store]
    ELSE IF UniqueViolation(store, RowsByIdAndOwner(store, id, userId), body.key)
    THEN [response |-> KeyResponse(500, "Database error: 23505", NoRow),
          store |-> store]
    ELSE IF RowsByIdAndOwner(store, id, userId) = {}
    THEN [response |-> KeyResponse(404, "API key not found or you do not have permission to update it", NoRow),
          store |-> store]
    ELSE LET after == UpdateRows(store, RowsByIdAndOwner(store, id, userId), body)
         IN  [response |-> KeyResponse(200, "", after[id]), store |-> after]

\* DELETE with the user_id filter: delete().eq('id', id)
\* .eq('user_id', userId).select('id')
owner_DELETE(store, userId, id, dbErr) ==
    IF userId = NullId
    THEN [response |-> KeyResponse(401, "Unauthorized. Please sign in to delete API keys.", NoRow),
          store |-> store]
    ELSE IF dbErr
    THEN [response |-> KeyResponse(500, "Database error", NoRow), store |-> store]
    ELSE IF RowsByIdAndOwner(store, id, userId) = {}
    THEN [response |-> KeyResponse(404, "API key not found or you do not have permission to delete it", NoRow),
          store |-> store]
    ELSE [response |-> KeyResponse(200, "", NoRow),
          store |-> RemoveRows(store, RowsByIdAndOwner(store, id, userId))]

(***************************************************************************)
(* Requests to the key routes                                              *)
(***************************************************************************)
\* who getAuthenticatedUserId can find a request to be from
RequestUsers == {getAuthenticatedUserId(sess, users) : sess \in Sessions}

PutBodies == {b \in Bodies : b.limit = NullInt}

\* the owner of the row a URL names: "none" when there is no such row
OwnerOf(store, id) == IF id \in DOMAIN store THEN store[id].user_id ELSE "none"

Last(op, user, id, body, dbErr, out) ==
    [op |-> op, user |-> user, id |-> id, body |-> body, dbErr |-> dbErr,
     owner |-> OwnerOf(api_keys, id),
     collided |-> (RowsByKey(api_keys, body.key) \ {id} # {}),
     changed |-> (out.store # api_keys),
     response |-> out.response]

NoLast ==
    [op |-> "none", user |-> NullId, id |-> 0,
     body |-> Body("", "", "", NullInt), dbErr |-> FALSE,
     owner |-> "none",
     collided |-> FALSE, changed |-> FALSE,
     response |-> KeyResponse(0, "", NoRow)]

PostKey ==
    /\ crudLeft > 0
    /\ \E userId \in RequestUsers, body \in Bodies, dbErr \in BOOLEAN :
         LET out == keys_POST(api_keys, nextId, body, dbErr)
         IN  /\ api_keys' = out.store
             /\ nextId' = IF out.response.status = 201 THEN nextId + 1
                          ELSE nextId
             /\ last' = Last("POST", userId, nextId, body, dbErr, out)
    /\ crudLeft' = crudLeft - 1
    /\ UNCHANGED <<readVars, authVars, uiVars, users, gateVars, sumVars>>

PutKey ==
    /\ crudLeft > 0
    /\ \E userId \in RequestUsers, id \in IdParams, body \in PutBodies,
          dbErr \in BOOLEAN :
         LET out == keys_id_PUT(api_keys, id, body, dbErr)
         IN  /\ api_keys' = out.store
             /\ last' = Last("PUT", userId, id, body, dbErr, out)
    /\ crudLeft' = crudLeft - 1
    /\ UNCHANGED <<readVars, authVars, uiVars, users, nextId, gateVars, sumVars>>

DeleteKey ==
    /\ crudLeft > 0
    /\ \E userId \in RequestUsers, id \in IdParams, dbErr \in BOOLEAN :
         LET out == keys_id_DELETE(api_keys, id, dbErr)
         IN  /\ api_keys' = out.store
             /\ last' = Last("DELETE", userId, id,
                             Body("", "", "", NullInt), dbErr, out)
    /\ crudLeft' = crudLeft - 1
    /\ UNCHANGED <<readVars, authVars, uiVars, users, nextId, gateVars, sumVars>>

PutKeyByOwner ==
    /\ crudLeft > 0
    /\ \E userId \in RequestUsers, id \in IdParams, body \in PutBodies,
          dbErr \in BOOLEAN :
         LET out == owner_PUT(api_keys, userId, id, body, dbErr)
         IN  /\ api_keys' = out.store
             /\ last' = Last("PUT_owner", userId, id, body, dbErr, out)
    /\ crudLeft' = crudLeft - 1
    /\ UNCHANGED <<readVars, authVars, uiVars, users, nextId, gateVars, sumVars>>

DeleteKeyByOwner ==
    /\ crudLeft > 0
    /\ \E userId \in RequestUsers, id \in IdParams, dbErr \in BOOLEAN :
         LET out == owner_DELETE(api_keys, userId, id, dbErr)
         IN  /\ api_keys' = out.store
             /\ last' = Last("DELETE_owner", userId, id,
                             Body("", "", "", NullInt), dbErr, out)
    /\ crudLeft' = crudLeft - 1
    /\ UNCHANGED <<readVars, authVars, uiVars, users, nextId, gateVars, sumVars>>

(***************************************************************************)
(* Read-only requests: app/api/keys/validate/route.ts                      *)
(***************************************************************************)
NoSession == Session("none", "absent", NullId)

\* the record of a read-only request: what it carried, whether a row held
\* the credential it carried, and what came back; rows is the sequence of
\* row ids of a list response
\* no call of the rate-limit library was made
NoResult ==
    [kind |-> "none", error |-> "", status |-> 0, isRateLimited |-> FALSE,
     usage |-> 0, limit |-> NullInt, keyId |-> 0]

Probe(op, sess, key, fault, response, rows, userId, threw) ==
    [op |-> op, sess |-> sess, key |-> key, fault |-> fault,
     found |-> (RowsByKey(api_keys, key) # {}),
     owned |-> {i \in DOMAIN api_keys : api_keys[i].user_id = userId},
     response |-> response, rows |-> rows, userId |-> userId,
     threw |-> threw, authFault |-> "none", result |-> NoResult,
     headers |-> <<NullStr, NullStr, NullStr>>]

NoProbe == Probe("none", NoSession, NullId, "none", NoResponse, <<>>, NullId, FALSE)

\* the codes of the store failures a select can meet
Faults == {"none", "42501", "XX000"}

\* body.key of a validate request: no key field, the empty string, or a
\* credential string
ValidateKeyValues == {NullId, ""} \cup Creds

\* the key is never taken to be missing
FalsyKey_Never(key) == FALSE

\* validate POST: if (!key)
FalsyKey(key) == key = NullId \/ key = ""

\* validate POST: the response, and the id of the row in keyData (0: none)
validate_POST(store, key, fault) ==
    IF FalsyKey(key)
    THEN [response |-> Response(400, "API key is required", "false"),
          keyId |-> 0]
    ELSE IF fault = "42501"
    THEN [response |-> Response(403, "Permission denied by Row Level Security (RLS).", "false"),
          keyId |-> 0]
    ELSE IF fault # "none"
    THEN [response |-> Response(500, "Database error", "false"), keyId |-> 0]
    ELSE IF RowsByKey(store, key) = {}
    THEN [response |-> Response(200, "Invalid API key", "false"), keyId |-> 0]
    ELSE [response |-> Response(200, "Valid API key", "true"),
          keyId |-> CHOOSE i \in RowsByKey(store, key) : TRUE]

\* the validation counted as a use of the key
validate_Store_Metered(store, key, fault) ==
    [i \in DOMAIN store |->
        IF i \in RowsByKey(store, key) /\ fault = "none"
        THEN [store[i] EXCEPT !.usage = UsageOrZero(@) + 1]
        ELSE store[i]]

\* validate POST: the table after the request; the handler's one statement
\* on the store is a select
validate_Store(store, key, fault) == store

ValidateKey ==
    /\ crudLeft > 0
    /\ \E key \in ValidateKeyValues, fault \in Faults :
         LET out == validate_POST(api_keys, key, fault)
         IN  /\ probe' = Probe("validate", NoSession, key, fault,
                               out.response,
                               IF out.keyId = 0 THEN <<>> ELSE <<out.keyId>>,
                               NullId, FALSE)
             /\ api_keys' = validate_Store(api_keys, key, fault)
    /\ crudLeft' = crudLeft - 1
    /\ UNCHANGED <<users, nextId, gateVars, sumVars, uiVars, authVars, last>>

\* a call of getAuthenticatedUserId on a request
ResolveUser ==
    /\ crudLeft > 0
    /\ \E sess \in Sessions, authFault \in AuthFaults :
         LET out == authResult(sess, users, authFault)
             call == Probe("auth", sess, NullId,
                           IF authFault = "lookup" THEN "XX000" ELSE "none",
                           NoResponse, <<>>, out.value, out.threw)
         IN  probe' = [call EXCEPT !.authFault = authFault]
    /\ crudLeft' = crudLeft - 1
    /\ UNCHANGED <<dbVars, gateVars, sumVars, uiVars, authVars, last>>

\* validateRequestApiKey up to its missing-key rejection, on any pair of
\* header values; the response is NoResponse when the request goes on;
\* probe.headers is the two header values and the credential extracted
ExtractKey ==
    /\ \E a \in AuthHeaderValues, x \in ApiKeyHeaderValues :
         LET key == getApiKeyFromHeaders(a, x)
             call == Probe("extract", NoSession, NullId, "none",
                           IF KeyMissing(key) THEN ApiKeyRequired
                           ELSE NoResponse,
                           <<>>, NullId, FALSE)
         IN  probe' = [call EXCEPT !.headers = <<a, x, key>>]
    /\ UNCHANGED <<dbVars, gateVars, sumVars, uiVars, authVars, crudVars>>

\* a call of checkRateLimit with any credential
RateLimitCheck ==
    /\ \E apiKey \in Creds, dbErr \in BOOLEAN :
         LET call == Probe("ratelimit", NoSession, apiKey,
                           IF dbErr THEN "XX000" ELSE "none", NoResponse,
                           <<>>, NullId, FALSE)
         IN  probe' = [call EXCEPT
                          !.result = checkRateLimit(api_keys, apiKey, dbErr)]
    /\ UNCHANGED <<dbVars, gateVars, sumVars, uiVars, authVars, crudVars>>

(***************************************************************************)
(* Read-only requests: app/api/keys/list/route.ts and the GET of           *)
(* app/api/keys/route.ts                                                   *)
(***************************************************************************)
\* created_at of a row: rows are numbered in the order of their creation
CreatedAt(id) == id

\* .order('created_at', { ascending: false }) on the rows ids
RECURSIVE OrderNewestFirst(_)
OrderNewestFirst(ids) ==
    IF ids = {} THEN <<>>
    ELSE LET newest == CHOOSE i \in ids :
                          \A j \in ids : CreatedAt(j) <= CreatedAt(i)
         IN  <<newest>> \o OrderNewestFirst(ids \ {newest})

\* .eq('user_id', userId)
RowsByOwner(store, userId) == {i \in DOMAIN store : store[i].user_id = userId}

\* list GET
list_GET(store, userId, fault) ==
    IF userId = NullId
    THEN [response |-> Response(401, "Unauthorized. Please sign in to access your API keys.", "absent"),
          rows |-> <<>>]
    ELSE IF fault = "42501"
    THEN [response |-> Response(403, "Permission denied by Row Level Security (RLS).", "absent"),
          rows |-> <<>>]
    ELSE IF fault # "none"
    THEN [response |-> Response(500, "Database error", "absent"), rows |-> <<>>]
    ELSE [response |-> Response(200, "", "absent"),
          rows |-> OrderNewestFirst(RowsByOwner(store, userId))]

\* keys GET: the request is not looked at
keys_GET(store, fault) ==
    IF fault = "42501"
    THEN [response |-> Response(403, "Permission denied by Row Level Security (RLS).", "absent"),
          rows |-> <<>>]
    ELSE IF fault # "none"
    THEN [response |-> Response(500, "Database error", "absent"), rows |-> <<>>]
    ELSE [response |-> Response(200, "", "absent"),
          rows |-> OrderNewestFirst(DOMAIN store)]

ListKeys ==
    /\ crudLeft > 0
    /\ \E sess \in Sessions, fault \in Faults, authFault \in AuthFaults :
         LET userId == authResult(sess, users, authFault).value
             out == list_GET(api_keys, userId, fault)
             request == Probe("list", sess, NullId, fault, out.response,
                              out.rows, userId, FALSE)
         IN  probe' = [request EXCEPT !.authFault = authFault]
    /\ crudLeft' = crudLeft - 1
    /\ UNCHANGED <<dbVars, gateVars, sumVars, uiVars, authVars, last>>

\* probe.userId is the user whose session the request carries
GetKeys ==
    /\ crudLeft > 0
    /\ \E sess \in Sessions, fault \in Faults :
         LET out == keys_GET(api_keys, fault)
         IN  probe' = Probe("GET", sess, NullId, fault, out.response,
                            out.rows, getAuthenticatedUserId(sess, users),
                            FALSE)
    /\ crudLeft' = crudLeft - 1
    /\ UNCHANGED <<dbVars, gateVars, sumVars, uiVars, authVars, last>>

(***************************************************************************)
(* app/components/ApiKeysCrud.tsx: the key form.  The credentials of the   *)
(* model abbreviate the prefixes 'shadi-dev-' and 'shadi-prod-' to "dev-"  *)
(* and "prod-", and the 24 random characters that follow to one.           *)
(***************************************************************************)
\* formData.type === 'dev' ? 'shadi-dev-' : 'shadi-prod-'
PrefixFor(type) == IF type = "dev" THEN "dev-" ELSE "prod-"

\* the random part of a generated credential
Suffixes == {"a", "z"}

\* String.prototype.startsWith
startsWith(str, prefix) ==
    Len(str) >= Len(prefix) /\ SubSeq(str, 1, Len(prefix)) = prefix

\* the first position at which pattern occurs in str; 0 when it does not
IndexOf(str, pattern) ==
    LET hits == {i \in 1..(Len(str) - Len(pattern) + 1) :
                    SubSeq(str, i, i + Len(pattern) - 1) = pattern}
    IN  IF hits = {} THEN 0
        ELSE CHOOSE i \in hits : \A j \in hits : i <= j

\* String.prototype.replace with a string pattern: the first occurrence
replace(str, pattern, replacement) ==
    LET at == IndexOf(str, pattern)
    IN  IF at = 0 THEN str
        ELSE SubSeq(str, 1, at - 1) \o replacement
                 \o SubSeq(str, at + Len(pattern), Len(str))

\* generateRandomKeyValue
generateRandomKeyValue(type, suffix) == PrefixFor(type) \o suffix

\* response.ok
Ok(response) == response.status >= 200 /\ response.status < 300

\* the record of a submit: the row edited (0: a create), its type, the
\* type and credential of the form, the credential sent, the POST or PUT
\* requests sent, how many of them met a credential in use, and whether an
\* error was shown
Submit(op, id, editingType, formType, formKey, sentKey, n, c, failed) ==
    [op |-> op, id |-> id, editingType |-> editingType, formType |-> formType,
     formKey |-> formKey, sentKey |-> sentKey, attempts |-> n,
     collisions |-> c, failed |-> failed]

NoSubmit == Submit("none", 0, "", "", "", "", 0, 0, FALSE)

\* handleSubmit -> createApiKey: one POST with a generated credential
createApiKey ==
    /\ crudLeft > 0
    /\ \E userId \in RequestUsers, name \in BodyNames, type \in Types,
          suffix \in Suffixes, limit \in {NullInt, MaxLimit},
          dbErr \in BOOLEAN :
         LET generatedKey == generateRandomKeyValue(type, suffix)
             body == Body(name, type, generatedKey, limit)
             out == keys_POST(api_keys, nextId, body, dbErr)
         IN  /\ api_keys' = out.store
             /\ nextId' = IF out.response.status = 201 THEN nextId + 1
                          ELSE nextId
             /\ last' = Last("POST", userId, nextId, body, dbErr, out)
             /\ ui' = Submit("create", 0, "", type, "", generatedKey, 1,
                             IF out.response.status = 409 THEN 1 ELSE 0,
                             ~Ok(out.response))
    /\ crudLeft' = crudLeft - 1
    /\ UNCHANGED <<readVars, authVars, users, gateVars, sumVars>>

\* what can be typed into the credential field of the edit form
TypedKeys == {"prod-z"}

\* updateApiKey: the credential sent, given the type of the row edited and
\* the type and credential of the form
keyToUpdate(editingType, formType, formKey) ==
    LET currentPrefix == PrefixFor(editingType)
        newPrefix == PrefixFor(formType)
    IN  IF editingType # formType /\ startsWith(formKey, currentPrefix)
        THEN replace(formKey, currentPrefix, newPrefix)
        ELSE formKey

\* handleEdit, then handleSubmit -> updateApiKey: one PUT for a listed row;
\* the form starts with the row's credential, which can be typed over
updateApiKey ==
    /\ crudLeft > 0
    /\ \E userId \in RequestUsers, id \in DOMAIN api_keys, name \in BodyNames,
          type \in Types, dbErr \in BOOLEAN :
         \E formKey \in {api_keys[id].key} \cup TypedKeys :
           LET editingType == api_keys[id].type
               sentKey == keyToUpdate(editingType, type, formKey)
               body == Body(name, type, sentKey, NullInt)
               out == keys_id_PUT(api_keys, id, body, dbErr)
           IN  /\ api_keys' = out.store
               /\ last' = Last("PUT", userId, id, body, dbErr, out)
               /\ ui' = Submit("update", id, editingType, type, formKey,
                               sentKey, 1, 0, ~Ok(out.response))
    /\ crudLeft' = crudLeft - 1
    /\ UNCHANGED <<readVars, authVars, users, nextId, gateVars, sumVars>>

(***************************************************************************)
(* Specifications                                                          *)
(***************************************************************************)
\* the store holds a key of u1 with any limit and an unlimited key of u2
SeedKeys(limit) ==
    (1 :> Row("u1", "n1", "dev", "dev-a", 0, limit))
        @@ (2 :> Row("u2", "n1", "prod", "prod-a", 0, NullInt))

\* the state after construction, but for the rows of api_keys
InitRest ==
    /\ users = ("u1" :> UserRow("e1", "old")) @@ ("u2" :> UserRow("e2", "old"))
    /\ signin = [p \in SignIns |-> IdleSignIn]
    /\ nextId = 3
    /\ caller = [p \in Callers |-> IdleCaller]
    /\ req = [r \in Reqs |-> IdleReq]
    /\ overlap = FALSE
    /\ last = NoLast
    /\ crudLeft = MaxCrud
    /\ probe = NoProbe
    /\ ui = NoSubmit

Init ==
    /\ \E limit \in {NullInt} \cup 1..MaxLimit : api_keys = SeedKeys(limit)
    /\ InitRest

\* what the columns usage and limit of a row can hold: null or a count
Usages == {NullInt} \cup 0..(MaxLimit + 1)
Limits == {NullInt} \cup 0..MaxLimit

\* the inputs of checkRateLimit: a key of any usage and any limit
InitRateLimit ==
    /\ \E usage \in Usages, limit \in Limits :
         api_keys = (1 :> Row("u1", "n1", "dev", "dev-a", usage, limit))
                       @@ (2 :> Row("u2", "n1", "prod", "prod-a", 0, NullInt))
    /\ InitRest

GateCall(p) ==
    \/ GateStart(p)
    \/ GateCheck(p)
    \/ GateIncrementFetch(p)
    \/ GateIncrementUpdate(p)

NextGate == \E p \in Callers : GateCall(p)

NextSummarizer ==
    \E r \in Reqs :
        \/ summarizer_POST(r)
        \/ summarizer_validateRequestApiKey(r)
        \/ summarizer_parseRequestBody(r)
        \/ summarizer_processGithubUrl(r)
        \/ summarizer_fetchAndSummarize(r)

\* the key routes of src/shadi-app
NextKeys ==
    \/ PostKey
    \/ PutKey
    \/ DeleteKey

\* the key routes with the [id] route that filters by user_id
NextKeysByOwner ==
    \/ PostKey
    \/ PutKeyByOwner
    \/ DeleteKeyByOwner

\* run p of the sign-in callback
SignIn(p) ==
    \/ SignInStart(p)
    \/ SignInCheck(p)
    \/ SignInInsert(p)
    \/ SignInUpdate(p)

\* the sign-in callback
NextSignIn == \E p \in SignIns : SignIn(p)

\* the key form
NextClient ==
    \/ createApiKey
    \/ updateApiKey

\* the read-only requests
NextReads ==
    \/ ValidateKey
    \/ ResolveUser
    \/ ListKeys
    \/ GetKeys

Next == NextGate \/ NextSummarizer \/ NextKeys \/ NextKeysByOwner \/ NextReads
            \/ NextClient \/ NextSignIn
            \/ RateLimitCheck \/ ExtractKey
            \/ \E p \in Callers : IncrementStart(p)

\* every operation, interleaved
Spec == Init /\ [][Next]_vars

\* validation calls of the rate-limit gate alone
SpecGate == Init /\ [][NextGate]_vars

\* the summarizer endpoint beside one validation call of the gate
SpecSummarizer == Init /\ [][GateCall(1) \/ NextSummarizer]_vars

\* the summarizer endpoint alone
SpecSummarizerAlone == Init /\ [][NextSummarizer]_vars

\* the key routes alone
SpecKeys == Init /\ [][NextKeys]_vars

\* the key routes alone, with the [id] route that filters by user_id
SpecKeysByOwner == Init /\ [][NextKeysByOwner]_vars

\* the read-only requests beside creates and deletes
SpecReads == Init /\ [][PostKey \/ DeleteKey \/ NextReads]_vars

\* the key of u1 has been used once
InitUsed ==
    /\ \E limit \in {NullInt, MaxLimit} :
         api_keys = [SeedKeys(limit) EXCEPT ![1].usage = 1]
    /\ InitRest

\* the validate endpoint while keys are created and deleted
SpecValidateKeys == Init /\ [][PostKey \/ DeleteKey \/ ValidateKey]_vars

\* getAuthenticatedUserId while a sign-in writes the users table
SpecResolve == Init /\ [][SignIn(1) \/ ResolveUser]_vars

\* calls of incrementApiKeyUsage while keys are deleted
SpecMetering ==
    Init /\ [][(\E p \in 1..2 : Increment(p)) \/ DeleteKey]_vars

\* the two update routes on a key that has been used
SpecUpdate == InitUsed /\ [][PutKey \/ PutKeyByOwner]_vars

\* the validate endpoint on keys of any usage and limit
SpecValidate == InitRateLimit /\ [][ValidateKey]_vars

\* the extraction of the credential from the headers of a request
SpecHeaders == Init /\ [][ExtractKey]_vars

\* checkRateLimit on keys of any usage and limit
SpecRateLimit == InitRateLimit /\ [][RateLimitCheck]_vars

\* runs of the sign-in callback alone
SpecSignIn == Init /\ [][NextSignIn]_vars

\* the key form alone
SpecClient == Init /\ [][NextClient]_vars

(***************************************************************************)
(* Properties of the rate-limit gate                                       *)
(***************************************************************************)
\* the validation calls made with the credential of key id
CallsOn(id) ==
    {p \in Callers : caller[p].pc # "idle" /\ caller[p].apiKey = api_keys[id].key}

AuthorizedCallsOn(id) ==
    {p \in CallsOn(id) : caller[p].result = "authorized"}

\* every call on key id has returned, and none met a store failure
CallsSettled(id) ==
    \A p \in CallsOn(id) :
        caller[p].pc = "done" /\ caller[p].result \in {"authorized", "rateLimited"}

\* C1: N concurrent validation calls on one key with limit L, from usage 0:
\* when L >= N (or the key is unlimited) all N are authorized and the final
\* usage is N; when L < N exactly L are authorized and the final usage is L,
\* whatever the interleaving of the calls' reads and writes.
C1_NoLostUpdates ==
    \A id \in DOMAIN api_keys :
        CallsSettled(id) =>
            LET N == Cardinality(CallsOn(id))
                A == Cardinality(AuthorizedCallsOn(id))
                L == api_keys[id].limit
            IN  IF L = NullInt \/ L >= N
                THEN A = N /\ api_keys[id].usage = N
                ELSE A = L /\ api_keys[id].usage = L

\* the usage of no key decreases in a step
UsageNonDecreasing ==
    \A id \in DOMAIN api_keys \cap DOMAIN api_keys' :
        api_keys'[id].usage >= api_keys[id].usage

\* a validation call that completes its metering step as authorized raises
\* the usage of its key by exactly 1
MeteringAddsOne ==
    \A p \in Callers :
        (caller[p].pc = "update" /\ caller'[p].result = "authorized"
            /\ caller[p].keyId \in DOMAIN api_keys \cap DOMAIN api_keys')
        => api_keys'[caller[p].keyId].usage = api_keys[caller[p].keyId].usage + 1

\* C3: the stored usage of every key never decreases, and each authorized
\* validation call that reaches the metering step raises it by exactly 1.
C3_MonotonicUsage == [][UsageNonDecreasing /\ MeteringAddsOne]_vars

\* the first half of C3 alone
C3_NeverDecreases == [][UsageNonDecreasing]_vars

(***************************************************************************)
(* Properties of the summarizer endpoint                                   *)
(***************************************************************************)
\* the request passed the bearer-auth check: validateRequestApiKey returned
\* the key's row
Authorized(r) == req[r].keyData.id # 0

\* the row read by the bearer-auth check had reached its limit
OverQuota(keyData) ==
    keyData.limit # NullInt /\ UsageOrZero(keyData.usage) >= keyData.limit

\* C2: once the stored usage of a key with limit L has reached L, a
\* validation call made through the summarizer's bearer-auth check is not
\* authorized (and leaves the stored usage as it was).
C2_QuotaEnforced ==
    \A r \in Reqs : Authorized(r) => ~OverQuota(req[r].keyData)

\* the summarizer requests that have returned and presented the credential
\* of key id
SummarizerCallsOn(id) ==
    {r \in Reqs : req[r].pc = "done" /\ Truthy(req[r].key)
                    /\ Spell(req[r].key) = api_keys[id].key}

\* the summarizer requests ran one after the other, nothing else metered a
\* key, and no lookup met a store failure
SequentialRun ==
    /\ ~overlap
    /\ \A p \in Callers : caller[p].pc = "idle"
    /\ \A r \in Reqs : req[r].pc \in {"idle", "done"}
    /\ \A r \in Reqs : req[r].response.status \notin {403, 500}

\* C7: k sequential summarizer calls with the credential of a key with limit
\* L and usage 0: min(k, L) of them are authorized, and the stored usage
\* ends at min(k, L).
C7_SequentialQuota ==
    SequentialRun =>
        \A id \in DOMAIN api_keys :
            api_keys[id].limit # NullInt =>
                LET k == Cardinality(SummarizerCallsOn(id))
                    a == Cardinality({r \in SummarizerCallsOn(id) : Authorized(r)})
                IN  /\ a = Min(k, api_keys[id].limit)
                    /\ api_keys[id].usage = Min(k, api_keys[id].limit)

\* C8: in an authorized summarizer request the usage increment of the key is
\* committed before downstream work starts and stays committed afterwards:
\* once downstream work has started, the stored usage exceeds the usage the
\* request read when it was authorized.
C8_MeterThenServe ==
    \A r \in Reqs :
        (req[r].work /\ req[r].keyData.id \in DOMAIN api_keys)
        => api_keys[req[r].keyData.id].usage > UsageOrZero(req[r].keyData.usage)

\* C9: no downstream work is done in a summarizer request whose credential
\* is missing, unknown, over quota, or whose lookup failed.
C9_RejectBeforeWork ==
    \A r \in Reqs :
        req[r].work =>
            /\ Truthy(req[r].key)
            /\ Authorized(r)
            /\ ~OverQuota(req[r].keyData)

\* the part of C9 the code keeps: a missing or unknown credential and a
\* failed lookup are rejected before any downstream work
C9_ExceptQuota ==
    \A r \in Reqs :
        req[r].work => Truthy(req[r].key) /\ Authorized(r)

\* C10: a summarizer request from which no credential can be extracted is
\* rejected at once with 401, error "API key is required" and valid false;
\* the store is not queried and no downstream work is done.
C10_MissingKeyRejected ==
    \A r \in Reqs :
        (req[r].pc # "idle" /\ ~Truthy(req[r].key)) =>
            /\ req[r].pc = "done"
            /\ req[r].response = Response(401, "API key is required", "false")
            /\ ~req[r].queried
            /\ ~req[r].work

\* a request without a credential has been answered
C10_Witness ==
    \E r \in Reqs :
        /\ req[r].pc = "done"
        /\ ~Truthy(req[r].key)
        /\ req[r].response.status = 401

\* the lookup of the request ran without a store failure and found no row
\* with the credential presented
UnknownCredential(r) ==
    /\ req[r].queried
    /\ req[r].fault = "none"
    /\ RowsByKey(api_keys, Spell(req[r].key)) = {}

\* C11: a summarizer request that presents a credential not found in the
\* store is answered with status 401, never with a 2xx or a 5xx status.
C11_UnknownKeyIs401 ==
    \A r \in Reqs :
        UnknownCredential(r) => req[r].response.status = 401

(***************************************************************************)
(* Properties of the key routes                                            *)
(***************************************************************************)
UpdateOps == {"PUT", "PUT_owner"}
DeleteOps == {"DELETE", "DELETE_owner"}

\* the last request was made with the session of a user on a key that
\* another user owns, an update carried a well-formed body, and the store
\* did not fail
ForeignRequest ==
    /\ last.op \in UpdateOps =>
          (~MissingFields(last.body) /\ ~BadType(last.body))
    /\ last.user \in Users
    /\ last.owner \in Users
    /\ last.owner # last.user
    /\ ~last.dbErr

\* C4: an update or delete of a key of user U1 issued with the session of
\* another user U2 never succeeds: the response is 404, the row is unchanged
\* and still exists, and the response carries no data of the key.
C4_OwnershipIsolation ==
    (last.op \in UpdateOps \cup DeleteOps /\ ForeignRequest) =>
        /\ last.response.status = 404
        /\ ~last.changed
        /\ last.response.data = NoRow

\* the response of the route of the last request, made by the same user
\* with the same body, for the key id instead
ResponseFor(id) ==
    IF last.op = "PUT"
    THEN keys_id_PUT(api_keys, id, last.body, FALSE).response
    ELSE IF last.op = "DELETE"
    THEN keys_id_DELETE(api_keys, id, FALSE).response
    ELSE IF last.op = "PUT_owner"
    THEN owner_PUT(api_keys, last.user, id, last.body, FALSE).response
    ELSE owner_DELETE(api_keys, last.user, id, FALSE).response

\* C5: the response to an update or delete of a key id that exists and
\* belongs to another user is the response the same request gets for a key
\* id that does not exist.
C5_NoExistenceLeak ==
    (last.op \in UpdateOps \cup DeleteOps /\ ForeignRequest) =>
        \A none \in IdParams \ DOMAIN api_keys :
            last.response = ResponseFor(none)

\* C6: no two rows share a credential, and a create or update whose
\* credential is the credential of another row fails and leaves the store
\* unchanged.
C6_UniqueCredential ==
    /\ \A i, j \in DOMAIN api_keys :
          i # j => api_keys[i].key # api_keys[j].key
    /\ (last.op \in UpdateOps \cup {"POST"} /\ last.collided) =>
          (last.response.status >= 400 /\ ~last.changed)

\* a create with the credential of an existing row was refused
C6_Witness ==
    /\ last.op = "POST"
    /\ last.collided
    /\ last.response.status = 409
    /\ Cardinality(DOMAIN api_keys) >= 2

NoValidSession(sess, fault) ==
    \/ sess.cookie # "next-auth"
    \/ sess.token # "good"
    \/ sess.email = NullId
    \/ UsersByEmail(users, sess.email) = {}
    \/ fault # "none"

\* C13: getAuthenticatedUserId never throws for absence conditions: for a
\* request with no cookie header, no session cookie, a cookie that fails
\* to decode, claims without an email, or an email with no user row, it
\* returns null.
C13_AbsenceIsNull ==
    (probe.op = "auth" /\ NoValidSession(probe.sess, probe.fault)) =>
        (~probe.threw /\ probe.userId = NullId)

\* a session token whose decoding throws was resolved to null
C13_Witness ==
    /\ probe.op = "auth"
    /\ probe.sess.token = "throws"
    /\ ~probe.threw
    /\ probe.userId = NullId

ListOps == {"list", "GET"}

\* the elements of a sequence
Range(seq) == {seq[i] : i \in DOMAIN seq}

\* the rows of a list response are in the order newest first, none twice
NewestFirst(rows) ==
    \A i, j \in DOMAIN rows : i < j => CreatedAt(rows[i]) > CreatedAt(rows[j])

\* the response to a request of a signed-in user holds exactly the rows the
\* user owned, newest first; a request without a session is answered 401
ListedByOwner ==
    IF probe.userId = NullId
    THEN probe.response.status = 401 /\ probe.rows = <<>>
    ELSE /\ probe.response.status = 200
         /\ Range(probe.rows) = probe.owned
         /\ NewestFirst(probe.rows)

\* C14: the list-keys operation for a signed-in user U returns exactly the
\* key rows whose owner is U, newest created_at first, and returns 401 when
\* there is no session.
C14_ListByOwner ==
    (probe.op \in ListOps /\ probe.fault = "none") => ListedByOwner

\* C14 for the route app/api/keys/list alone
C14_ListRouteByOwner ==
    (probe.op = "list" /\ probe.fault = "none") => ListedByOwner

(***************************************************************************)
(* Properties of create, update and delete                                 *)
(***************************************************************************)
\* the ids of the rows of table users
UserIds == DOMAIN users

\* C15: every key row created through the create-key endpoint has an
\* owning user id that references an existing user, the signed-in creator;
\* a list for that user then contains the key; and a create without a
\* session is refused.
C15_CreatedKeyOwned ==
    last.op = "POST" =>
        /\ last.user = NullId =>
              (last.response.status >= 400 /\ ~last.changed)
        /\ last.response.status = 201 =>
              /\ api_keys[last.id].user_id \in UserIds
              /\ api_keys[last.id].user_id = last.user
              /\ last.id \in Range(list_GET(api_keys, last.user, "none").rows)

\* C16: when a create meets a credential collision, a new credential is
\* generated and the create is retried exactly once; a failure is shown
\* only if the second attempt collides too.
C16_RetryOnce ==
    ui.op = "create" =>
        /\ ui.collisions = 0 => ui.attempts = 1
        /\ ui.collisions >= 1 => ui.attempts = 2
        /\ (ui.failed /\ ui.collisions >= 1) => ui.collisions = 2

\* C17: every successful create returns 201 with a stored record whose
\* usage is 0 and whose credential starts with the prefix of the record's
\* environment class.
C17_CreatedRecord ==
    (last.op = "POST" /\ Ok(last.response)) =>
        /\ last.response.status = 201
        /\ last.id \in DOMAIN api_keys
        /\ last.response.data = api_keys[last.id]
        /\ api_keys[last.id].usage = 0
        /\ startsWith(api_keys[last.id].key, PrefixFor(api_keys[last.id].type))

\* a required field of the body is missing or empty, or its type is
\* neither dev nor prod
Malformed(body) ==
    \/ body.name = ""
    \/ body.type \notin Types
    \/ body.key = ""

\* C18: a create or update request with a missing required field or a
\* type other than dev/prod is rejected with 400 before any store access
\* (so also when the store would fail), leaving api_keys unchanged.
C18_MalformedRejected ==
    (/\ last.op \in UpdateOps \cup {"POST"}
     /\ last.op = "PUT_owner" => last.user # NullId
     /\ Malformed(last.body))
    => (last.response.status = 400 /\ ~last.changed)

\* a malformed update was rejected with 400 although the store was failing
C18_Witness ==
    /\ last.op = "PUT"
    /\ last.id \in DOMAIN api_keys
    /\ last.body.type = "staging"
    /\ last.dbErr
    /\ last.response.status = 400

\* the class of the row changed in the form and the credential of the form
\* still carried the prefix of the old class
RewriteDue ==
    /\ ui.editingType # ui.formType
    /\ startsWith(ui.formKey, PrefixFor(ui.editingType))

\* C19: on update, if the environment class changes and the supplied
\* credential still carries the old class's prefix, the prefix is rewritten
\* to the new class before persisting, so that after any update the stored
\* credential's prefix and the stored environment class never disagree.
C19_PrefixFollowsClass ==
    (ui.op = "update" /\ ~ui.failed) =>
        /\ RewriteDue => startsWith(ui.sentKey, PrefixFor(ui.formType))
        /\ ui.id \in DOMAIN api_keys
        /\ startsWith(api_keys[ui.id].key, PrefixFor(api_keys[ui.id].type))

\* the first half of C19 alone: the rewrite is made whenever it is due
C19_RewriteMade ==
    (ui.op = "update" /\ RewriteDue) =>
        /\ startsWith(ui.sentKey, PrefixFor(ui.formType))
        /\ ~ui.failed => api_keys[ui.id].key = ui.sentKey

\* C20: a delete of a key id that matches no row visible to the caller
\* (it never existed, or an earlier request deleted it) is answered 404,
\* never success; success is answered only when a row owned by the caller
\* was removed.
C20_DeleteMissingIs404 ==
    (last.op \in DeleteOps /\ ~last.dbErr) =>
        /\ (last.user # NullId /\ last.owner = "none") =>
              last.response.status = 404
        /\ Ok(last.response) =>
              /\ last.user # NullId
              /\ last.owner = last.user
              /\ last.changed
              /\ last.id \notin DOMAIN api_keys

(***************************************************************************)
(* Properties of the sign-in callback                                      *)
(***************************************************************************)
\* run p of the callback has completed (it returns true) for a Google
\* account
Completed(p) ==
    /\ signin[p].pc = "done"
    /\ signin[p].provider = "google"

\* ... and none of its statements met a store failure
SignedIn(p) == Completed(p) /\ ~signin[p].failed

\* no two user rows share an email
EmailUnique ==
    \A u, v \in DOMAIN users : u # v => users[u].email # users[v].email

\* the row of run p's email exists; it was inserted when the select matched
\* no row and updated when it matched one
Upserted(p) ==
    /\ UsersByEmail(users, signin[p].email) # {}
    /\ signin[p].wrote = IF signin[p].matched THEN "update" ELSE "insert"
    /\ (signin[p].wrote = "insert" /\ ~signin[p].collided) =>
          NewUserId(p) \in UsersByEmail(users, signin[p].email)

\* C21: after the sign-in callback completes for a Google account with
\* email e, a user row with email e exists: it is created when no row
\* matched e and updated when one did; and at no point do two user rows
\* share an email, also when two first sign-ins for e run concurrently.
C21_SignInUpserts ==
    /\ EmailUnique
    /\ \A p \in SignIns : Completed(p) => Upserted(p)

\* the part of C21 that the callback keeps: emails stay unique, and a run
\* whose statements met no store failure leaves the row of its email
C21_UpsertsUnlessStoreFails ==
    /\ EmailUnique
    /\ \A p \in SignIns : SignedIn(p) => Upserted(p)

\* two first sign-ins for one email ran concurrently: both found no row,
\* one inserted it and the other met the UNIQUE constraint
C21_ConcurrentFirstSignIns ==
    \E p, q \in SignIns :
        /\ p # q
        /\ SignedIn(p) /\ SignedIn(q)
        /\ signin[p].email = signin[q].email
        /\ ~signin[p].matched /\ ~signin[q].matched
        /\ ~signin[p].collided /\ signin[q].collided

(***************************************************************************)
(* Properties of identity resolution                                       *)
(***************************************************************************)
\* the exceptional condition arose while the request was resolved: the
\* secret was needed (a next-auth cookie was there) and not configured, or
\* the lookup was made (the token decoded to an email) and failed
IdentityFailure ==
    \/ /\ probe.authFault = "secret"
       /\ probe.sess.cookie = "next-auth"
    \/ /\ probe.authFault = "lookup"
       /\ probe.sess.cookie = "next-auth"
       /\ probe.sess.token = "good"
       /\ probe.sess.email # NullId

\* C22: an exceptional condition during identity resolution (the users
\* lookup fails, the signing secret is not configured) reaches the caller
\* of the list route as a generic server failure, not as the
\* unauthenticated outcome (null / 401).
C22_FailureIsServerError ==
    (probe.op = "list" /\ IdentityFailure) =>
        /\ probe.response.status >= 500
        /\ probe.response.status # 401

\* C23: getAuthenticatedUserId returns a non-null id only when a session
\* token cookie is present, it decodes with the configured secret, the
\* decoded claims contain an email, and a user row with that email
\* exists; the id returned is the id of that row, not the token's subject.
C23_IdOfUserRow ==
    (probe.op = "auth" /\ probe.userId # NullId) =>
        /\ probe.sess.cookie = "next-auth"
        /\ probe.authFault # "secret"
        /\ probe.sess.token = "good"
        /\ probe.sess.email # NullId
        /\ UsersByEmail(users, probe.sess.email) # {}
        /\ probe.userId \in UsersByEmail(users, probe.sess.email)
        /\ probe.fault = "none"

\* a token of subject u2 with the email of u1's row was resolved to u1
C23_Witness ==
    /\ probe.op = "auth"
    /\ probe.sess.email = "e1"
    /\ probe.sess.sub = "u2"
    /\ probe.userId = "u1"

(***************************************************************************)
(* Properties of checkRateLimit                                            *)
(***************************************************************************)
\* C24: checkRateLimit reports not rate-limited when the key's limit is
\* null; otherwise it reports rate-limited exactly when usage >= limit,
\* with a null usage counted as 0; when no row matches the credential it
\* reports the error 'Invalid API key' (401), not a rate-limited result.
C24_RateLimitDecision ==
    (probe.op = "ratelimit" /\ probe.fault = "none") =>
        LET rows == {i \in DOMAIN api_keys : api_keys[i].key = probe.key}
        IN  /\ rows = {} =>
                  /\ probe.result.kind = "error"
                  /\ probe.result.error = "Invalid API key"
                  /\ probe.result.status = 401
                  /\ ~probe.result.isRateLimited
            /\ \A i \in rows :
                  LET usage == IF api_keys[i].usage = NullInt THEN 0
                               ELSE api_keys[i].usage
                      limit == api_keys[i].limit
                  IN  /\ probe.result.kind = "ok"
                      /\ probe.result.keyId = i
                      /\ probe.result.isRateLimited =
                            (limit # NullInt /\ usage >= limit)

\* a key with no usage recorded and limit 0 was found rate-limited
C24_Witness ==
    /\ probe.op = "ratelimit"
    /\ probe.fault = "none"
    /\ probe.result.kind = "ok"
    /\ api_keys[probe.result.keyId].usage = NullInt
    /\ api_keys[probe.result.keyId].limit = 0
    /\ probe.result.isRateLimited

(***************************************************************************)
(* Properties of getApiKeyFromHeaders                                      *)
(***************************************************************************)
NotSp(t) == t # Sp

\* a header is present with a value
Present(h) == h # NullStr /\ h # <<>>

\* the value of a header without the whitespace around it; the values
\* drawn have no whitespace inside a credential
Trimmed(h) == SelectSeq(h, NotSp)

C26_ValidateReadOnly ==
    [][(probe'.op = "validate" /\ crudLeft' = crudLeft - 1) =>
          /\ api_keys' = api_keys
          /\ users' = users
          /\ nextId' = nextId]_vars

\* a key over its quota was validated as valid, its usage as it was
C26_Witness ==
    /\ probe.op = "validate"
    /\ probe.rows = <<1>>
    /\ probe.response.valid = "true"
    /\ api_keys[1].limit # NullInt
    /\ api_keys[1].usage > api_keys[1].limit

(***************************************************************************)
(* Properties of the update routes                                         *)
(***************************************************************************)
\* the step is an update request answered with success
UpdateSucceeds ==
    /\ crudLeft' = crudLeft - 1
    /\ last'.op = "PUT"
    /\ last'.response.status = 200

UpdateAfterDelete(p) ==
    /\ caller[p].pc = "update"
    /\ caller'[p].pc = "done"
    /\ caller[p].keyId \notin DOMAIN api_keys

\* C28: when the key is deleted between the read and the write of
\* incrementApiKeyUsage, the write does not recreate the row or touch
\* another row, and the call returns an error, not { success: true }.
C28_DeletedMeanwhile ==
    [][\A p \in Callers :
          UpdateAfterDelete(p) =>
              /\ api_keys' = api_keys
              /\ caller'[p].result = "error"]_vars

\* the usage of a key was read, a DELETE removed the key, and the write
\* that followed matched no row
C28_Witness ==
    \E p \in Callers :
        /\ caller[p].pc = "done"
        /\ caller[p].missed
        /\ caller[p].newUsage > 0
        /\ caller[p].result = "error"
        /\ last.op = "DELETE"
        /\ last.id = caller[p].keyId
        /\ last.changed

\* C29: incrementApiKeyUsage returns { success: true } only when its
\* update wrote a row; when its first read fails or finds no row it makes
\* no write, returns an error, and the stored usage is as it was.
C29_SuccessMeansWritten ==
    [][\A p \in Callers :
          /\ (caller'[p].result = "authorized" /\ caller[p].result = "none") =>
                /\ caller[p].pc = "update"
                /\ caller[p].keyId \in DOMAIN api_keys
                /\ api_keys'[caller[p].keyId].usage = caller[p].newUsage
          /\ (caller[p].pc = "fetch" /\ caller'[p].pc # "fetch") =>
                /\ api_keys' = api_keys
                /\ caller'[p].pc = "done" => caller'[p].result = "error"
                /\ caller[p].keyId \notin DOMAIN api_keys =>
                      caller'[p].pc = "done"]_vars

\* a call for a key id of no row has returned an error from its read, and
\* another call has returned success with its usage written
C29_Witness ==
    \E p, q \in Callers :
        /\ caller[p].pc = "done"
        /\ caller[p].keyId \notin DOMAIN api_keys
        /\ caller[p].newUsage = 0
        /\ caller[p].result = "error"
        /\ caller[q].pc = "done"
        /\ caller[q].result = "authorized"
        /\ api_keys[caller[q].keyId].usage = caller[q].newUsage

(***************************************************************************)
(* Properties of the limit a key is created with                           *)
(***************************************************************************)
\* C30: the create endpoint stores a positive limit as it was supplied; a
\* limit of 0, like an absent or null one, is stored as null, so a key
\* created with limit 0 is unlimited under checkRateLimit and not always
\* rate-limited.
C30_ZeroLimitIsUnlimited ==
    (last.op = "POST" /\ last.response.status = 201) =>
        /\ last.id \in DOMAIN api_keys
        /\ last.body.limit > 0 =>
              api_keys[last.id].limit = last.body.limit
        /\ last.body.limit \in {0, NullInt} =>
              api_keys[last.id].limit = NullInt
        /\ last.body.limit = 0 =>
              LET r == checkRateLimit(api_keys, api_keys[last.id].key, FALSE)
              IN  /\ r.kind = "ok"
                  /\ r.keyId = last.id
                  /\ ~r.isRateLimited

\* a key was created with limit 0 and its row holds no limit
C30_Witness ==
    /\ last.op = "POST"
    /\ last.response.status = 201
    /\ last.body.limit = 0
    /\ api_keys[last.id].limit = NullInt
    /\ api_keys[last.id].usage = 0

====
